---- MODULE Spec2Model ----
(***************************************************************************)
(* A model of the generic in-memory cache of src/demo.go (lines 165-512):  *)
(* the item table, the RWMutex, the clock, the eviction callback and every *)
(* exported operation, each cut into steps at its clock readings, at its    *)
(* waits for the lock and at its callback invocations.                     *)
(***************************************************************************)
EXTENDS Integers, Sequences, FiniteSets, TLC

VARIABLES items, now, defaultExpiration, deArg, onEvicted, mu, pc, loc, arith,
          lazy, twin

vars == <<items, now, defaultExpiration, deArg, onEvicted, mu, pc, loc, arith,
          lazy, twin>>

----------------------------------------------------------------------------
(* Bounds of the model *)

\* the clock runs over 0..MaxTime
MaxTime == 2
\* at most MaxArith arithmetic calls change a payload in one behaviour
MaxArith == 2

\* the callers (goroutines)
Procs == {"p1", "p2"}

----------------------------------------------------------------------------
(* Program constants *)

NoExpiration == -1
DefaultExpiration == 0

\* the nil func value of the onEvicted field
NilCb == "nil"
Callbacks == {"f1", "f2"}

----------------------------------------------------------------------------
(* Payloads: a value of type T = any, as a closed tagged union.  A float   *)
(* payload is modelled by its integral values.                             *)

Val(kind, v) == [kind |-> kind, val |-> v]
\* the zero value of T = any, and what Get returns beside false
NilVal == Val("nil", 0)

SignedKinds == {"int", "int8", "int16", "int32", "int64"}
UnsignedKinds == {"uint", "uintptr", "uint8", "uint16", "uint32", "uint64"}
FloatKinds == {"float32", "float64"}
IntKinds == SignedKinds \cup UnsignedKinds

\* the width in bits of an integer kind
Width(kind) ==
  CASE kind \in {"int8", "uint8"} -> 8
    [] kind \in {"int16", "uint16"} -> 16
    [] kind \in {"int32", "uint32"} -> 32
    [] OTHER -> 64

\* Go's conversion of an integer v to an integer kind, and the result of
\* + and - in that kind: v modulo 2^width, into the kind's range.  The
\* values of the model stay far inside the 32 and 64 bit ranges, where the
\* conversion changes nothing.
Conv(kind, v) ==
  IF Width(kind) > 16 THEN v
  ELSE IF kind \in UnsignedKinds THEN v % (2 ^ Width(kind))
  ELSE ((v + 2 ^ (Width(kind) - 1)) % (2 ^ Width(kind))) - 2 ^ (Width(kind) - 1)

----------------------------------------------------------------------------
(* Item, the map and the lock *)

Item(x, e) == [Object |-> x, Expiration |-> e]

\* Expired with >= for >: an item expires one reading early
ExpiredAtExpiration(item, t) ==
  IF item.Expiration = 0 THEN FALSE ELSE t >= item.Expiration

\* Item.Expired, lines 178-183, with t the reading of time.Now().UnixNano()
Expired(item, t) ==
  IF item.Expiration = 0 THEN FALSE ELSE t > item.Expiration

\* c.items[k] = item
MapSet(m, k, item) == [j \in (DOMAIN m) \cup {k} |-> IF j = k THEN item ELSE m[j]]
\* delete(c.items, k)
MapDelete(m, k) == [j \in (DOMAIN m) \ {k} |-> m[j]]
EmptyMap == [j \in {} |-> Item(NilVal, 0)]

\* the twin table after a step: m when the twin run is kept
Mirror(m) == IF twin THEN m ELSE lazy

\* sync.RWMutex: w the goroutine holding it for writing ("": none), r the
\* goroutines holding it for reading
Unlocked == [w |-> "", r |-> {}]
CanLock(m) == m.w = "" /\ m.r = {}
CanRLock(m) == m.w = ""
Lock(m, p) == [m EXCEPT !.w = p]
Unlock(m, p) == [m EXCEPT !.w = IF @ = p THEN "" ELSE @]
RLock(m, p) == [m EXCEPT !.r = @ \cup {p}]
RUnlock(m, p) == [m EXCEPT !.r = @ \ {p}]

----------------------------------------------------------------------------
(* A goroutine's frame: the operation it runs, its arguments and locals,   *)
(* and, at pc = "done", what the operation returned.                       *)

Loc0 ==
  [op |-> "", k |-> "", x |-> NilVal, d |-> 0, e |-> 0, n |-> 0,
   f |-> NilCb, t |-> 0, evictedItems |-> {}, called |-> <<>>,
   item |-> Item(NilVal, 0), v |-> NilVal, ok |-> FALSE, exp |-> 0, err |-> ""]

Frame(op, k) == [Loc0 EXCEPT !.op = op, !.k = k]

\* a nil func call panics, and the panic ends the process
Crashed == \E p \in Procs : pc[p] = "panic"

At(p, label) == ~Crashed /\ pc[p] = label

Goto(p, label, frame) ==
  /\ pc' = [pc EXCEPT ![p] = label]
  /\ loc' = [loc EXCEPT ![p] = frame]

----------------------------------------------------------------------------
(* Construction *)

\* newCache, lines 484-493: a default of DefaultExpiration collapses to
\* NoExpiration
newCache(de) == IF de = DefaultExpiration THEN NoExpiration ELSE de

\* New(de, ci), lines 509-512: the state after construction, for the
\* defaults DE. With twin set the model keeps, next to the table, the table
\* lazy of the run of the same calls in which DeleteExpired is never called:
\* every write and Delete is done on it too, and no sweep
InitTwin(DE, tw) ==
  /\ deArg \in DE
  /\ defaultExpiration = newCache(deArg)
  /\ items = EmptyMap
  /\ now = 0
  /\ onEvicted = NilCb
  /\ mu = Unlocked
  /\ pc = [p \in Procs |-> "idle"]
  /\ loc = [p \in Procs |-> Loc0]
  /\ arith = 0
  /\ lazy = EmptyMap
  /\ twin = tw

\* the state after construction, no twin run kept
InitOver(DE) == InitTwin(DE, FALSE)

----------------------------------------------------------------------------
(* The clock *)

Tick ==
  /\ ~Crashed
  /\ now < MaxTime
  /\ now' = now + 1
  /\ UNCHANGED <<lazy, twin, items, defaultExpiration, deArg, onEvicted, mu, pc, loc, arith>>

----------------------------------------------------------------------------
(* Set, SetDefault *)

\* ExpirationOf without the substitution of the default
ExpirationOfNoDefault(d, t) == IF d > 0 THEN t + d ELSE 0

\* lines 202-208 and 218-224: the expiration of a write with duration d
\* whose clock reading is t
ExpirationOf(d, t) ==
  LET dd == IF d = DefaultExpiration THEN defaultExpiration ELSE d
  IN  IF dd > 0 THEN t + dd ELSE 0

\* Set, lines 202-208: the expiration is computed before the lock is taken
Set(p, k, x, d) ==
  /\ At(p, "idle")
  /\ Goto(p, "Set_Lock", [Frame("Set", k) EXCEPT !.x = x, !.d = d, !.e = ExpirationOf(d, now)])
  /\ UNCHANGED <<lazy, twin, items, now, defaultExpiration, deArg, onEvicted, mu, arith>>

\* SetDefault, lines 231-233
SetDefault(p, k, x) == Set(p, k, x, DefaultExpiration)

\* Set, lines 209-214
SetWrite(p) ==
  /\ At(p, "Set_Lock")
  /\ CanLock(mu)
  /\ items' = MapSet(items, loc[p].k, Item(loc[p].x, loc[p].e))
  /\ lazy' = Mirror(MapSet(lazy, loc[p].k, Item(loc[p].x, loc[p].e)))
  /\ mu' = Unlock(Lock(mu, p), p)
  /\ Goto(p, "done", loc[p])
  /\ UNCHANGED <<twin, now, defaultExpiration, deArg, onEvicted, arith>>

----------------------------------------------------------------------------
(* get and set, the helpers that run with the lock held *)

\* get without the test of item.Expired()
getPresent(m, k, t) ==
  IF k \notin DOMAIN m THEN [v |-> NilVal, ok |-> FALSE]
  ELSE [v |-> m[k].Object, ok |-> TRUE]

\* get, lines 294-303, with t its clock reading
get(m, k, t) ==
  IF k \notin DOMAIN m THEN [v |-> NilVal, ok |-> FALSE]
  ELSE IF Expired(m[k], t) THEN [v |-> NilVal, ok |-> FALSE]
  ELSE [v |-> m[k].Object, ok |-> TRUE]

\* set, lines 217-229, with t its clock reading: the table it leaves
set(m, k, x, d, t) == MapSet(m, k, Item(x, ExpirationOf(d, t)))

----------------------------------------------------------------------------
(* Add *)

\* Add with the lock released between the lookup and the write
AddUnlocked(p, k, x, d) ==
  /\ At(p, "idle")
  /\ CanLock(mu)
  /\ IF get(items, k, now).ok
     THEN Goto(p, "done", [Frame("Add", k) EXCEPT !.x = x, !.d = d, !.err = "AlreadyExists"])
     ELSE Goto(p, "Add_set", [Frame("Add", k) EXCEPT !.x = x, !.d = d])
  /\ mu' = Unlock(Lock(mu, p), p)
  /\ UNCHANGED <<lazy, twin, items, now, defaultExpiration, deArg, onEvicted, arith>>

\* Add, lines 236-241
Add(p, k, x, d) ==
  /\ At(p, "idle")
  /\ CanLock(mu)
  /\ IF get(items, k, now).ok
     THEN /\ mu' = Unlock(Lock(mu, p), p)
          /\ Goto(p, "done", [Frame("Add", k) EXCEPT !.x = x, !.d = d, !.err = "AlreadyExists"])
     ELSE /\ mu' = Lock(mu, p)
          /\ Goto(p, "Add_set", [Frame("Add", k) EXCEPT !.x = x, !.d = d])
  /\ UNCHANGED <<lazy, twin, items, now, defaultExpiration, deArg, onEvicted, arith>>

\* Add that notifies the callback of the entry it overwrites
AddSetNotifying(p) ==
  /\ At(p, "Add_set")
  /\ items' = set(items, loc[p].k, loc[p].x, loc[p].d, now)
  /\ lazy' = Mirror(set(lazy, loc[p].k, loc[p].x, loc[p].d, now))
  /\ mu' = Unlock(mu, p)
  /\ Goto(p, "done",
          [loc[p] EXCEPT !.e = ExpirationOf(loc[p].d, now),
                         !.called = IF onEvicted # NilCb /\ loc[p].k \in DOMAIN items
                                    THEN Append(@, [f |-> onEvicted, key |-> loc[p].k,
                                                    value |-> items[loc[p].k].Object])
                                    ELSE @])
  /\ UNCHANGED <<twin, now, defaultExpiration, deArg, onEvicted, arith>>

\* Add, lines 242-244
AddSet(p) ==
  /\ At(p, "Add_set")
  /\ items' = set(items, loc[p].k, loc[p].x, loc[p].d, now)
  /\ lazy' = Mirror(set(lazy, loc[p].k, loc[p].x, loc[p].d, now))
  /\ mu' = Unlock(mu, p)
  /\ Goto(p, "done", [loc[p] EXCEPT !.e = ExpirationOf(loc[p].d, now)])
  /\ UNCHANGED <<twin, now, defaultExpiration, deArg, onEvicted, arith>>

----------------------------------------------------------------------------
(* Replace *)

\* Replace, lines 248-253
Replace(p, k, x, d) ==
  /\ At(p, "idle")
  /\ CanLock(mu)
  /\ IF ~get(items, k, now).ok
     THEN /\ mu' = Unlock(Lock(mu, p), p)
          /\ Goto(p, "done", [Frame("Replace", k) EXCEPT !.x = x, !.d = d, !.err = "NotFound"])
     ELSE /\ mu' = Lock(mu, p)
          /\ Goto(p, "Replace_set", [Frame("Replace", k) EXCEPT !.x = x, !.d = d])
  /\ UNCHANGED <<lazy, twin, items, now, defaultExpiration, deArg, onEvicted, arith>>

\* Replace, lines 254-256
ReplaceSet(p) ==
  /\ At(p, "Replace_set")
  /\ items' = set(items, loc[p].k, loc[p].x, loc[p].d, now)
  /\ lazy' = Mirror(set(lazy, loc[p].k, loc[p].x, loc[p].d, now))
  /\ mu' = Unlock(mu, p)
  /\ Goto(p, "done", [loc[p] EXCEPT !.e = ExpirationOf(loc[p].d, now)])
  /\ UNCHANGED <<twin, now, defaultExpiration, deArg, onEvicted, arith>>

----------------------------------------------------------------------------
(* Get, GetWithExpiration *)

\* Get without the test of item.Expired()
GetOfPresent(m, k, t) ==
  IF k \notin DOMAIN m THEN [v |-> NilVal, ok |-> FALSE]
  ELSE [v |-> m[k].Object, ok |-> TRUE]

\* Get, lines 261-271, with t the clock reading of item.Expired()
GetOf(m, k, t) ==
  IF k \notin DOMAIN m THEN [v |-> NilVal, ok |-> FALSE]
  ELSE IF Expired(m[k], t) THEN [v |-> NilVal, ok |-> FALSE]
  ELSE [v |-> m[k].Object, ok |-> TRUE]

\* Get, lines 259-272
Get(p, k) ==
  /\ At(p, "idle")
  /\ CanRLock(mu)
  /\ mu' = RUnlock(RLock(mu, p), p)
  /\ Goto(p, "done", [Frame("Get", k) EXCEPT !.v = GetOf(items, k, now).v, !.ok = GetOf(items, k, now).ok])
  /\ UNCHANGED <<lazy, twin, items, now, defaultExpiration, deArg, onEvicted, arith>>

\* GetWithExpiration, lines 276-291, with t its clock reading; the zero
\* time.Time is exp = 0
GetWithExpirationOf(m, k, t) ==
  IF k \notin DOMAIN m THEN [v |-> NilVal, exp |-> 0, ok |-> FALSE]
  ELSE IF m[k].Expiration > 0
       THEN IF t > m[k].Expiration
            THEN [v |-> NilVal, exp |-> 0, ok |-> FALSE]
            ELSE [v |-> m[k].Object, exp |-> m[k].Expiration, ok |-> TRUE]
       ELSE [v |-> m[k].Object, exp |-> 0, ok |-> TRUE]

\* GetWithExpiration, lines 274-292
GetWithExpiration(p, k) ==
  /\ At(p, "idle")
  /\ CanRLock(mu)
  /\ mu' = RUnlock(RLock(mu, p), p)
  /\ Goto(p, "done", [Frame("GetWithExpiration", k) EXCEPT
                        !.v = GetWithExpirationOf(items, k, now).v,
                        !.exp = GetWithExpirationOf(items, k, now).exp,
                        !.ok = GetWithExpirationOf(items, k, now).ok])
  /\ UNCHANGED <<lazy, twin, items, now, defaultExpiration, deArg, onEvicted, arith>>

----------------------------------------------------------------------------
(* Increment, IncrementFloat, Decrement, DecrementFloat *)

\* Increment's type switch with the sum not converted to the payload's kind
IncrementOfWide(x, n) ==
  IF x.kind \in IntKinds \cup FloatKinds
  THEN [ok |-> TRUE, v |-> Val(x.kind, x.val + n)]
  ELSE [ok |-> FALSE, v |-> x]

\* Increment's type switch, lines 313-343: the new payload, or none
\* (ok = FALSE) in the default case
IncrementOf(x, n) ==
  IF x.kind \in IntKinds
  THEN [ok |-> TRUE, v |-> Val(x.kind, Conv(x.kind, x.val + Conv(x.kind, n)))]
  ELSE IF x.kind \in FloatKinds
  THEN [ok |-> TRUE, v |-> Val(x.kind, x.val + n)]
  ELSE [ok |-> FALSE, v |-> x]

\* Decrement's type switch, lines 378-408
DecrementOf(x, n) ==
  IF x.kind \in IntKinds
  THEN [ok |-> TRUE, v |-> Val(x.kind, Conv(x.kind, x.val - Conv(x.kind, n)))]
  ELSE IF x.kind \in FloatKinds
  THEN [ok |-> TRUE, v |-> Val(x.kind, x.val - n)]
  ELSE [ok |-> FALSE, v |-> x]

\* IncrementFloat's type switch with the integer kinds let through
IncrementFloatOfAny(x, n) ==
  IF x.kind \in FloatKinds \cup IntKinds
  THEN [ok |-> TRUE, v |-> Val(x.kind, x.val + n)]
  ELSE [ok |-> FALSE, v |-> x]

\* IncrementFloat's type switch, lines 356-364
IncrementFloatOf(x, n) ==
  IF x.kind \in FloatKinds
  THEN [ok |-> TRUE, v |-> Val(x.kind, x.val + n)]
  ELSE [ok |-> FALSE, v |-> x]

\* DecrementFloat's type switch, lines 421-429
DecrementFloatOf(x, n) ==
  IF x.kind \in FloatKinds
  THEN [ok |-> TRUE, v |-> Val(x.kind, x.val - n)]
  ELSE [ok |-> FALSE, v |-> x]

\* the type switch of the operation op
Switch(op, x, n) ==
  CASE op = "Increment" -> IncrementOf(x, n)
    [] op = "Decrement" -> DecrementOf(x, n)
    [] op = "IncrementFloat" -> IncrementFloatOf(x, n)
    [] op = "DecrementFloat" -> DecrementFloatOf(x, n)

\* Arith without the test of v.Expired()
ArithPresent(p, op, k, n) ==
  /\ At(p, "idle")
  /\ arith < MaxArith
  /\ CanLock(mu)
  /\ IF k \notin DOMAIN items
     THEN /\ mu' = Unlock(Lock(mu, p), p)
          /\ Goto(p, "done", [Frame(op, k) EXCEPT !.n = n, !.err = "NotFound"])
     ELSE /\ mu' = Lock(mu, p)
          /\ Goto(p, "Arith_switch", [Frame(op, k) EXCEPT !.n = n, !.item = items[k]])
  /\ UNCHANGED <<lazy, twin, items, now, defaultExpiration, deArg, onEvicted, arith>>

\* Arith with the lock taken for reading: RLock for Lock
ArithShared(p, op, k, n) ==
  /\ At(p, "idle")
  /\ arith < MaxArith
  /\ CanRLock(mu)
  /\ IF k \notin DOMAIN items \/ Expired(items[k], now)
     THEN /\ mu' = RUnlock(RLock(mu, p), p)
          /\ Goto(p, "done", [Frame(op, k) EXCEPT !.n = n, !.err = "NotFound"])
     ELSE /\ mu' = RLock(mu, p)
          /\ Goto(p, "Arith_switch", [Frame(op, k) EXCEPT !.n = n, !.item = items[k]])
  /\ UNCHANGED <<lazy, twin, items, now, defaultExpiration, deArg, onEvicted, arith>>

\* the four operations, lines 306-311, 350-355, 371-376, 415-420: the lock
\* and the lookup; v is the copy of the item the goroutine works on
Arith(p, op, k, n) ==
  /\ At(p, "idle")
  /\ arith < MaxArith
  /\ CanLock(mu)
  /\ IF k \notin DOMAIN items \/ Expired(items[k], now)
     THEN /\ mu' = Unlock(Lock(mu, p), p)
          /\ Goto(p, "done", [Frame(op, k) EXCEPT !.n = n, !.err = "NotFound"])
     ELSE /\ mu' = Lock(mu, p)
          /\ Goto(p, "Arith_switch", [Frame(op, k) EXCEPT !.n = n, !.item = items[k]])
  /\ UNCHANGED <<lazy, twin, items, now, defaultExpiration, deArg, onEvicted, arith>>

\* lines 313-346 on table m: the type switch on the entry of the frame's
\* key and the write of the result
ArithWrite(m, frame) ==
  IF frame.k \notin DOMAIN m THEN m
  ELSE LET r == Switch(frame.op, m[frame.k].Object, frame.n)
       IN  IF r.ok THEN MapSet(m, frame.k, [m[frame.k] EXCEPT !.Object = r.v]) ELSE m

\* the write of the result through set, which stamps the entry anew
ArithSwitchStamping(p) ==
  /\ At(p, "Arith_switch")
  /\ LET r == Switch(loc[p].op, loc[p].item.Object, loc[p].n)
     IN  IF r.ok
         THEN /\ items' = set(items, loc[p].k, r.v, DefaultExpiration, now)
              /\ arith' = arith + 1
              /\ Goto(p, "done", [loc[p] EXCEPT !.v = r.v])
         ELSE /\ items' = items
              /\ arith' = arith
              /\ Goto(p, "done", [loc[p] EXCEPT !.err = "WrongType"])
  /\ lazy' = Mirror(ArithWrite(lazy, loc[p]))
  /\ mu' = Unlock(mu, p)
  /\ UNCHANGED <<twin, now, defaultExpiration, deArg, onEvicted>>

\* the four operations, lines 313-346, 356-367, 378-411, 421-432: the type
\* switch on the copy and the write of the copy
ArithSwitch(p) ==
  /\ At(p, "Arith_switch")
  /\ LET r == Switch(loc[p].op, loc[p].item.Object, loc[p].n)
     IN  IF r.ok
         THEN /\ items' = MapSet(items, loc[p].k, [loc[p].item EXCEPT !.Object = r.v])
              /\ arith' = arith + 1
              /\ Goto(p, "done", [loc[p] EXCEPT !.v = r.v])
         ELSE /\ items' = items
              /\ arith' = arith
              /\ Goto(p, "done", [loc[p] EXCEPT !.err = "WrongType"])
  /\ lazy' = Mirror(ArithWrite(lazy, loc[p]))
  /\ mu' = Unlock(mu, p)
  /\ UNCHANGED <<twin, now, defaultExpiration, deArg, onEvicted>>

Increment(p, k, n) == Arith(p, "Increment", k, n)
IncrementFloat(p, k, n) == Arith(p, "IncrementFloat", k, n)
Decrement(p, k, n) == Arith(p, "Decrement", k, n)
DecrementFloat(p, k, n) == Arith(p, "DecrementFloat", k, n)

----------------------------------------------------------------------------
(* Delete, DeleteExpired, OnEvicted *)

\* delete that reports the entry and leaves it in the table
deleteKept(m, k, cb) ==
  IF cb # NilCb /\ k \in DOMAIN m
  THEN [items |-> m, v |-> m[k].Object, ok |-> TRUE]
  ELSE [items |-> MapDelete(m, k), v |-> NilVal, ok |-> FALSE]

\* delete, lines 444-453: the table it leaves and what it returns
delete(m, k, cb) ==
  IF cb # NilCb /\ k \in DOMAIN m
  THEN [items |-> MapDelete(m, k), v |-> m[k].Object, ok |-> TRUE]
  ELSE [items |-> MapDelete(m, k), v |-> NilVal, ok |-> FALSE]

\* Delete with the lock still held when the callback is called
DeleteHolding(p, k) ==
  /\ At(p, "idle")
  /\ CanLock(mu)
  /\ LET r == delete(items, k, onEvicted)
     IN  /\ items' = r.items
         /\ lazy' = Mirror(MapDelete(lazy, k))
         /\ Goto(p, IF r.ok THEN "Delete_onEvicted" ELSE "done",
                 [Frame("Delete", k) EXCEPT !.v = r.v, !.ok = r.ok,
                                            !.f = IF r.ok THEN onEvicted ELSE NilCb])
  /\ mu' = Lock(mu, p)
  /\ UNCHANGED <<twin, now, defaultExpiration, deArg, onEvicted, arith>>

\* Delete, lines 436-439; f is the callback that delete found registered at
\* line 445 when it reported the entry
Delete(p, k) ==
  /\ At(p, "idle")
  /\ CanLock(mu)
  /\ LET r == delete(items, k, onEvicted)
     IN  /\ items' = r.items
         /\ lazy' = Mirror(MapDelete(lazy, k))
         /\ Goto(p, IF r.ok THEN "Delete_onEvicted" ELSE "done",
                 [Frame("Delete", k) EXCEPT !.v = r.v, !.ok = r.ok,
                                            !.f = IF r.ok THEN onEvicted ELSE NilCb])
  /\ mu' = Unlock(Lock(mu, p), p)
  /\ UNCHANGED <<twin, now, defaultExpiration, deArg, onEvicted, arith>>

\* Delete, line 440: the call of the func value the field holds now; the
\* call of a nil func panics
DeleteOnEvicted(p) ==
  /\ At(p, "Delete_onEvicted")
  /\ IF onEvicted = NilCb
     THEN Goto(p, "panic", loc[p])
     ELSE Goto(p, "done",
               [loc[p] EXCEPT !.called = Append(@, [f |-> onEvicted, key |-> loc[p].k, value |-> loc[p].v])])
  /\ UNCHANGED <<lazy, twin, items, now, defaultExpiration, deArg, onEvicted, mu, arith>>

\* the range without the test Expiration > 0 of line 465
RECURSIVE DeleteExpiredLoopUnset(_, _, _, _, _)
DeleteExpiredLoopUnset(left, m, t, cb, evictedItems) ==
  IF left = {} THEN [items |-> m, evictedItems |-> evictedItems]
  ELSE LET k == CHOOSE j \in left : TRUE
       IN  IF t > m[k].Expiration
           THEN LET r == delete(m, k, cb)
                IN  DeleteExpiredLoopUnset(left \ {k}, r.items, t, cb,
                      IF r.ok THEN evictedItems \cup {[key |-> k, value |-> r.v]}
                      ELSE evictedItems)
           ELSE DeleteExpiredLoopUnset(left \ {k}, m, t, cb, evictedItems)

\* the range with >= for > at line 465: an entry is swept at the clock
\* reading of its expiration
RECURSIVE DeleteExpiredLoopEarly(_, _, _, _, _)
DeleteExpiredLoopEarly(left, m, t, cb, evictedItems) ==
  IF left = {} THEN [items |-> m, evictedItems |-> evictedItems]
  ELSE LET k == CHOOSE j \in left : TRUE
       IN  IF m[k].Expiration > 0 /\ t >= m[k].Expiration
           THEN LET r == delete(m, k, cb)
                IN  DeleteExpiredLoopEarly(left \ {k}, r.items, t, cb,
                      IF r.ok THEN evictedItems \cup {[key |-> k, value |-> r.v]}
                      ELSE evictedItems)
           ELSE DeleteExpiredLoopEarly(left \ {k}, m, t, cb, evictedItems)

\* DeleteExpired, lines 464-471: the range over the keys left to visit, in
\* some order; the table it leaves and the evicted pairs
RECURSIVE DeleteExpiredLoop(_, _, _, _, _)
DeleteExpiredLoop(left, m, t, cb, evictedItems) ==
  IF left = {} THEN [items |-> m, evictedItems |-> evictedItems]
  ELSE LET k == CHOOSE j \in left : TRUE
       IN  IF m[k].Expiration > 0 /\ t > m[k].Expiration
           THEN LET r == delete(m, k, cb)
                IN  DeleteExpiredLoop(left \ {k}, r.items, t, cb,
                      IF r.ok THEN evictedItems \cup {[key |-> k, value |-> r.v]}
                      ELSE evictedItems)
           ELSE DeleteExpiredLoop(left \ {k}, m, t, cb, evictedItems)

\* DeleteExpired, lines 461-462: the clock is read before the lock is taken
DeleteExpired(p) ==
  /\ At(p, "idle")
  /\ Goto(p, "DeleteExpired_Lock", [Frame("DeleteExpired", "") EXCEPT !.t = now])
  /\ UNCHANGED <<lazy, twin, items, now, defaultExpiration, deArg, onEvicted, mu, arith>>

\* DeleteExpired, lines 463-472; f is the callback that delete found
\* registered at line 445 when it reported the entries
DeleteExpiredRange(p) ==
  /\ At(p, "DeleteExpired_Lock")
  /\ CanLock(mu)
  /\ LET r == DeleteExpiredLoop(DOMAIN items, items, loc[p].t, onEvicted, {})
     IN  /\ items' = r.items
         /\ lazy' = lazy
         /\ Goto(p, IF r.evictedItems = {} THEN "done" ELSE "DeleteExpired_onEvicted",
                 [loc[p] EXCEPT !.evictedItems = r.evictedItems,
                                !.f = IF r.evictedItems = {} THEN NilCb ELSE onEvicted])
  /\ mu' = Unlock(Lock(mu, p), p)
  /\ UNCHANGED <<twin, now, defaultExpiration, deArg, onEvicted, arith>>

\* DeleteExpired, lines 473-475: one iteration, the call of the func value
\* the field holds now
DeleteExpiredOnEvicted(p) ==
  /\ At(p, "DeleteExpired_onEvicted")
  /\ \E v \in loc[p].evictedItems :
       IF onEvicted = NilCb
       THEN Goto(p, "panic", loc[p])
       ELSE Goto(p, IF loc[p].evictedItems = {v} THEN "done" ELSE "DeleteExpired_onEvicted",
                 [loc[p] EXCEPT !.evictedItems = @ \ {v},
                                !.called = Append(@, [f |-> onEvicted, key |-> v.key, value |-> v.value])])
  /\ UNCHANGED <<lazy, twin, items, now, defaultExpiration, deArg, onEvicted, mu, arith>>

\* OnEvicted, lines 478-482
OnEvicted(p, f) ==
  /\ At(p, "idle")
  /\ CanLock(mu)
  /\ onEvicted' = f
  /\ mu' = Unlock(Lock(mu, p), p)
  /\ Goto(p, "done", [Frame("OnEvicted", "") EXCEPT !.f = f])
  /\ UNCHANGED <<lazy, twin, items, now, defaultExpiration, deArg, arith>>

----------------------------------------------------------------------------
(* The callers *)

\* the operation's return to its caller
Return(p) ==
  /\ At(p, "done")
  /\ Goto(p, "idle", Loc0)
  /\ UNCHANGED <<lazy, twin, items, now, defaultExpiration, deArg, onEvicted, mu, arith>>

\* the steps of the callers P with keys K, payloads X, durations D and
\* deltas N, as long as no callback is registered
NextData(P, K, X, D, N) ==
  \/ Tick
  \/ \E p \in P, k \in K, x \in X, d \in D : Set(p, k, x, d)
  \/ \E p \in P, k \in K, x \in X : SetDefault(p, k, x)
  \/ \E p \in P : SetWrite(p)
  \/ \E p \in P, k \in K, x \in X, d \in D : Add(p, k, x, d)
  \/ \E p \in P : AddSet(p)
  \/ \E p \in P, k \in K, x \in X, d \in D : Replace(p, k, x, d)
  \/ \E p \in P : ReplaceSet(p)
  \/ \E p \in P, k \in K : Get(p, k)
  \/ \E p \in P, k \in K : GetWithExpiration(p, k)
  \/ \E p \in P, k \in K, n \in N : Increment(p, k, n)
  \/ \E p \in P, k \in K, n \in N : IncrementFloat(p, k, n)
  \/ \E p \in P, k \in K, n \in N : Decrement(p, k, n)
  \/ \E p \in P, k \in K, n \in N : DecrementFloat(p, k, n)
  \/ \E p \in P : ArithSwitch(p)
  \/ \E p \in P, k \in K : Delete(p, k)
  \/ \E p \in P : DeleteExpired(p)
  \/ \E p \in P : DeleteExpiredRange(p)
  \/ \E p \in P : Return(p)

\* the registration of the callbacks F by the callers P, and the calls of
\* the registered callback
NextEvicted(P, F) ==
  \/ \E p \in P, f \in F : OnEvicted(p, f)
  \/ \E p \in P : DeleteOnEvicted(p)
  \/ \E p \in P : DeleteExpiredOnEvicted(p)

\* One caller, two keys, payloads of no numeric kind: the operations one
\* after the other, the clock advancing between any two steps
Keys == {"a", "b"}
Values == {Val("string", 1), Val("string", 2)}
Durations == {NoExpiration, DefaultExpiration, 1}
Deltas == {1}
Funcs == {NilCb, "f1"}
Defaults == {NoExpiration, DefaultExpiration, 1}

Init == InitOver(Defaults)
Next == NextData({"p1"}, Keys, Values, Durations, Deltas) \/ NextEvicted({"p1"}, Funcs)
Spec == Init /\ [][Next]_vars

\* One caller, one key, payloads of the numeric kinds
ArithValues ==
  {Val("int", 1), Val("int8", 127), Val("uint8", 0), Val("float64", 1), Val("string", 1)}
ArithDeltas == {1, 2}

InitArith == InitOver({DefaultExpiration})
NextArith ==
  \/ NextData({"p1"}, {"a"}, ArithValues, {NoExpiration, 1}, ArithDeltas)
  \/ NextEvicted({"p1"}, Funcs)
SpecArith == InitArith /\ [][NextArith]_vars

\* Two callers, one key, no callback registered
InitConc == InitOver({DefaultExpiration})
NextConc == NextData(Procs, {"a"}, {Val("int", 1)}, {NoExpiration, 1}, ArithDeltas)
SpecConc == InitConc /\ [][NextConc]_vars

\* Two callers that increment one key: the key is written by Set before
\* the first Increment is called, and by no writer but Increment after
NoIncrementCalled == arith = 0 /\ \A q \in Procs : pc[q] # "Arith_switch"
NoSetCalled == \A q \in Procs : pc[q] # "Set_Lock"

InitIncr == InitOver({DefaultExpiration})
NextIncr ==
  \/ Tick
  \/ \E d \in {NoExpiration, 1} : NoIncrementCalled /\ Set("p1", "a", Val("int", 1), d)
  \/ SetWrite("p1")
  \/ \E p \in Procs, n \in ArithDeltas : NoSetCalled /\ Increment(p, "a", n)
  \/ \E p \in Procs : ArithSwitch(p)
  \/ \E p \in Procs : Get(p, "a")
  \/ \E p \in Procs : Return(p)
SpecIncr == InitIncr /\ [][NextIncr]_vars

\* Two callers that write, delete and sweep two keys while the callback is
\* registered, replaced and removed
EvictFuncs == {NilCb, "f1", "f2"}
EvictDurations == {NoExpiration, 1}
\* each key is written with a payload of its own
EvictValue(k) == IF k = "a" THEN Val("string", 1) ELSE Val("string", 2)

InitEvict == InitOver({DefaultExpiration})
NextEvict ==
  \/ Tick
  \/ \E p \in Procs, k \in Keys, d \in EvictDurations : Set(p, k, EvictValue(k), d)
  \/ \E p \in Procs : SetWrite(p)
  \/ \E p \in Procs, k \in Keys : Delete(p, k)
  \/ \E p \in Procs : DeleteExpired(p)
  \/ \E p \in Procs : DeleteExpiredRange(p)
  \/ \E p \in Procs : Return(p)
  \/ NextEvicted(Procs, EvictFuncs)
SpecEvict == InitEvict /\ [][NextEvict]_vars

\* Two callers that write, delete and sweep two keys with a callback
\* registered: OnEvicted registers and replaces callbacks and never removes
\* the one registered
InitRace == InitOver({DefaultExpiration})
NextRace ==
  \/ Tick
  \/ \E p \in Procs, k \in Keys, d \in EvictDurations : Set(p, k, EvictValue(k), d)
  \/ \E p \in Procs : SetWrite(p)
  \/ \E p \in Procs, k \in Keys : Delete(p, k)
  \/ \E p \in Procs : DeleteExpired(p)
  \/ \E p \in Procs : DeleteExpiredRange(p)
  \/ \E p \in Procs : Return(p)
  \/ NextEvicted(Procs, Callbacks)
SpecRace == InitRace /\ [][NextRace]_vars

\* One caller, two keys, an integer and a string payload: every operation
\* next to the entries of the other key
FrameValues == {Val("int", 1), Val("string", 1)}

InitFrame == InitOver({DefaultExpiration})
NextFrame ==
  \/ NextData({"p1"}, Keys, FrameValues, EvictDurations, Deltas)
  \/ NextEvicted({"p1"}, Funcs)
SpecFrame == InitFrame /\ [][NextFrame]_vars

----------------------------------------------------------------------------

\* One caller, two keys, with the twin run kept: the data operations with
\* sweeps at arbitrary points, no callback registered
InitLazy == InitTwin({DefaultExpiration}, TRUE)
NextLazy == NextData({"p1"}, Keys, FrameValues, EvictDurations, Deltas)
SpecLazy == InitLazy /\ [][NextLazy]_vars

\* Two callers on one key under fair scheduling: the scheduler lets every
\* goroutine that can run a step run, and the mutex hands the lock to every
\* waiter in the end (sync.Mutex leaves no waiter starving)
FairStep(p) ==
  \/ Set(p, "a", Val("int", 1), NoExpiration)
  \/ SetWrite(p)
  \/ Add(p, "a", Val("int", 1), NoExpiration)
  \/ AddSet(p)
  \/ \E n \in Deltas : Increment(p, "a", n)
  \/ \E n \in Deltas : IncrementFloat(p, "a", n)
  \/ ArithSwitch(p)
  \/ Get(p, "a")
  \/ Delete(p, "a")
  \/ DeleteOnEvicted(p)
  \/ \E f \in Funcs : OnEvicted(p, f)
  \/ Return(p)

InitFair == InitOver({DefaultExpiration})
NextFair == \E p \in Procs : FairStep(p)
SpecFair ==
  /\ InitFair
  /\ [][NextFair]_vars
  /\ \A p \in Procs : SF_vars(FairStep(p))

----------------------------------------------------------------------------
(* What the properties speak of *)

\* the glossary's live entry: present, its expiration unset or not earlier
\* than the clock reading t
Live(m, k, t) ==
  k \in DOMAIN m /\ (m[k].Expiration = 0 \/ m[k].Expiration >= t)

\* this step is caller p's first step of the operation op
Calls(p, op) == pc[p] = "idle" /\ pc'[p] # "idle" /\ loc'[p].op = op

\* this step is caller p's step from the label from to the label to
Steps(p, from, to) == pc[p] = from /\ pc'[p] = to

\* the operations that write or remove the key they are given
Writers ==
  {"Set", "Add", "Replace", "Delete",
   "Increment", "Decrement", "IncrementFloat", "DecrementFloat"}

\* this step is a step of a writer of key k
Targets(p, k) ==
  /\ pc'[p] # pc[p]
  /\ LET frame == IF pc[p] = "idle" THEN loc'[p] ELSE loc[p]
     IN  frame.k = k /\ frame.op \in Writers

Found(x) == [v |-> x, ok |-> TRUE]
NotFound == [v |-> NilVal, ok |-> FALSE]

\* the expiration the contract gives a write of duration ttl at clock
\* reading t by an engine constructed with the default D
Stamp(ttl, D, t) ==
  IF ttl > 0 THEN t + ttl
  ELSE IF ttl < 0 THEN 0
  ELSE IF D > 0 THEN t + D ELSE 0

\* the table m with key k bound to payload x and expiration e, all other
\* keys as they were
TableWith(m, k, x, e) ==
  [j \in (DOMAIN m) \cup {k} |->
     IF j = k THEN [Object |-> x, Expiration |-> e] ELSE m[j]]

----------------------------------------------------------------------------
(* C1 *)

\* C1: Get(k) returns (v, true) if and only if the table holds an entry for
\* k with payload v that is live at Get's clock reading; for a key not in
\* the table and for an expired entry still in the table it returns
\* (nil, false).
C1_GetVisibility ==
  [][\A p \in Procs :
       Calls(p, "Get") =>
         /\ pc'[p] = "done"
         /\ IF Live(items, loc'[p].k, now)
            THEN loc'[p].ok /\ loc'[p].v = items[loc'[p].k].Object
            ELSE ~loc'[p].ok /\ loc'[p].v = NilVal]_vars

\* a Get has returned not-found for an expired entry that is still in the
\* table
C1_Witness ==
  \E p \in Procs :
    /\ pc[p] = "done" /\ loc[p].op = "Get" /\ ~loc[p].ok
    /\ loc[p].k \in DOMAIN items
    /\ items[loc[p].k].Expiration # 0
    /\ items[loc[p].k].Expiration < now

----------------------------------------------------------------------------
(* C2 *)

\* C2: Set(k, v, never) stores v with the expiration unset, and as long as
\* no writer of k takes a step, an entry whose expiration is unset stays in
\* the table unchanged, whatever the clock and the sweep do, and Get(k)
\* returns (v, true).
C2_NeverExpires ==
  [][/\ \A p \in Procs :
          (Steps(p, "Set_Lock", "done") /\ loc[p].d < 0) =>
            /\ loc[p].k \in DOMAIN items'
            /\ items'[loc[p].k] = [Object |-> loc[p].x, Expiration |-> 0]
     /\ \A k \in Keys :
          (/\ k \in DOMAIN items
           /\ items[k].Expiration = 0
           /\ ~\E p \in Procs : Targets(p, k)) =>
            /\ k \in DOMAIN items'
            /\ items'[k] = items[k]
            /\ GetOf(items', k, now') = Found(items[k].Object)]_vars

\* a sweep has run with the clock at its end, and an entry whose expiration
\* is unset is still in the table
C2_Witness ==
  \E p \in Procs, k \in Keys :
    /\ pc[p] = "done" /\ loc[p].op = "DeleteExpired"
    /\ loc[p].t >= 2
    /\ k \in DOMAIN items
    /\ items[k].Expiration = 0

----------------------------------------------------------------------------
(* C3 *)

\* Set(k, v, d) with d > 0 stamps the entry with its clock reading plus d
C3_Stamps ==
  \A p \in Procs :
    /\ (Calls(p, "Set") /\ loc'[p].d > 0) => loc'[p].e = now + loc'[p].d
    /\ (Steps(p, "Set_Lock", "done") /\ loc[p].d > 0) =>
         /\ loc[p].k \in DOMAIN items'
         /\ items'[loc[p].k] = [Object |-> loc[p].x, Expiration |-> loc[p].e]

\* with no writer of k taking a step, an entry that expires is unchanged or
\* swept, and once the clock is past its expiration Get(k) is not-found
C3_PastExpiry ==
  \A k \in Keys :
    (/\ k \in DOMAIN items
     /\ items[k].Expiration > 0
     /\ ~\E p \in Procs : Targets(p, k)) =>
      /\ k \in DOMAIN items' => items'[k] = items[k]
      /\ now' > items[k].Expiration => GetOf(items', k, now') = NotFound

\* C3 as stated: the Get right after Set(k, v, d), d > 0, has returned
\* yields (v, true), and every Get once the clock is past d yields not-found.
C3_Original ==
  [][/\ C3_Stamps
     /\ C3_PastExpiry
     /\ \A p \in Procs :
          (Steps(p, "Set_Lock", "done") /\ loc[p].d > 0) =>
            GetOf(items', loc[p].k, now') = Found(loc[p].x)]_vars

\* C3, amended: the Get right after Set(k, v, d), d > 0, has returned yields
\* (v, true) when the clock has advanced by no more than d since Set read
\* it, and not-found otherwise; every Get once the clock is past Set's
\* reading plus d yields not-found, swept or not.
C3_SetThenGet ==
  [][/\ C3_Stamps
     /\ C3_PastExpiry
     /\ \A p \in Procs :
          (Steps(p, "Set_Lock", "done") /\ loc[p].d > 0) =>
            GetOf(items', loc[p].k, now') =
              IF now' <= loc[p].e THEN Found(loc[p].x) ELSE NotFound]_vars

\* a Set with d > 0 has returned at the very instant its entry expires: the
\* entry is still live
C3_Witness ==
  \E p \in Procs :
    /\ pc[p] = "done" /\ loc[p].op = "Set" /\ loc[p].d > 0
    /\ loc[p].k \in DOMAIN items
    /\ items[loc[p].k] = [Object |-> loc[p].x, Expiration |-> loc[p].e]
    /\ now = loc[p].e

----------------------------------------------------------------------------
(* C4 *)

\* C4: the expiration stored by Set, Add and Replace(k, v, ttl) is the clock
\* reading plus ttl when ttl > 0, unset when ttl < 0, and for ttl = 0 the
\* clock reading plus the default D the engine was constructed with when
\* D > 0, unset when D <= 0.
C4_StoredExpiration ==
  [][\A p \in Procs :
       /\ Calls(p, "Set") => loc'[p].e = Stamp(loc'[p].d, deArg, now)
       /\ Steps(p, "Set_Lock", "done") =>
            /\ loc[p].k \in DOMAIN items'
            /\ items'[loc[p].k].Expiration = loc[p].e
       /\ (Steps(p, "Add_set", "done") \/ Steps(p, "Replace_set", "done")) =>
            /\ loc[p].k \in DOMAIN items'
            /\ items'[loc[p].k].Expiration = Stamp(loc[p].d, deArg, now)]_vars

\* an Add with ttl = 0 on an engine constructed with a default D > 0 has
\* stored an expiration
C4_Witness ==
  \E p \in Procs :
    /\ pc[p] = "done" /\ loc[p].op = "Add" /\ loc[p].err = ""
    /\ loc[p].d = 0 /\ deArg > 0
    /\ loc[p].k \in DOMAIN items
    /\ items[loc[p].k].Expiration = loc[p].e
    /\ loc[p].e > deArg

----------------------------------------------------------------------------
(* C5 *)

----------------------------------------------------------------------------
(* C6 *)

\* C6: Replace(k, v, ttl) returns NotFound if and only if no live entry for
\* k exists when it looks, and then leaves the table unchanged; otherwise it
\* succeeds and leaves the table as Set(k, v, ttl) would.
C6_Replace ==
  [][\A p \in Procs :
       /\ Calls(p, "Replace") =>
            /\ items' = items
            /\ IF Live(items, loc'[p].k, now)
               THEN pc'[p] = "Replace_set" /\ loc'[p].err = ""
               ELSE pc'[p] = "done" /\ loc'[p].err = "NotFound"
       /\ (pc[p] = "Replace_set" /\ pc'[p] # "Replace_set") =>
            /\ pc'[p] = "done" /\ loc'[p].err = ""
            /\ items' = TableWith(items, loc[p].k, loc[p].x,
                                  Stamp(loc[p].d, deArg, now))]_vars

\* a Replace has returned NotFound for an expired entry, which is still in
\* the table
C6_Witness ==
  \E p \in Procs :
    /\ pc[p] = "done" /\ loc[p].op = "Replace" /\ loc[p].err = "NotFound"
    /\ loc[p].k \in DOMAIN items
    /\ ~Live(items, loc[p].k, now)

----------------------------------------------------------------------------
(* C7 *)

\* the values of an integer kind no wider than 16 bits
RangeOf(kind) ==
  IF kind \in UnsignedKinds THEN 0 .. (2 ^ Width(kind) - 1)
  ELSE (0 - 2 ^ (Width(kind) - 1)) .. (2 ^ (Width(kind) - 1) - 1)

\* v reduced to the kind: the value of the kind's range that differs from v
\* by a multiple of 2^width (v itself for the kinds of 32 and 64 bits, whose
\* bounds the values here do not reach)
WrapTo(kind, v) ==
  IF Width(kind) > 16 THEN v
  ELSE CHOOSE r \in RangeOf(kind) : (r - v) % (2 ^ Width(kind)) = 0

\* this step is the write of an Increment or Decrement that found a live
\* entry holding an integer
IntegerStep(p) ==
  /\ Steps(p, "Arith_switch", "done")
  /\ loc[p].op \in {"Increment", "Decrement"}
  /\ loc[p].k \in DOMAIN items
  /\ items[loc[p].k].Object.kind \in IntKinds

\* x + n after Increment, x - n after Decrement
Sum(p) ==
  IF loc[p].op = "Increment"
  THEN items[loc[p].k].Object.val + loc[p].n
  ELSE items[loc[p].k].Object.val - loc[p].n

\* C7 as stated: on a live entry holding the integer x, Increment(k, n) and
\* Decrement(k, n) return no error and the Get that follows returns x + n
\* and x - n.
C7_Original ==
  [][\A p \in Procs :
       IntegerStep(p) =>
         /\ loc'[p].err = ""
         /\ Live(items', loc[p].k, now') =>
              GetOf(items', loc[p].k, now') =
                Found(Val(items[loc[p].k].Object.kind, Sum(p)))]_vars

\* C7, amended: on a live entry holding the integer x, Increment(k, n) and
\* Decrement(k, n) return no error and store x + n and x - n reduced to the
\* width of the payload's kind, the expiration as it was; the Get that
\* follows returns that payload as long as the entry is live.
C7_IntegerArith ==
  [][\A p \in Procs :
       IntegerStep(p) =>
         /\ loc'[p].err = ""
         /\ items' = TableWith(items, loc[p].k,
                               Val(items[loc[p].k].Object.kind,
                                   WrapTo(items[loc[p].k].Object.kind, Sum(p))),
                               items[loc[p].k].Expiration)
         /\ Live(items', loc[p].k, now') =>
              GetOf(items', loc[p].k, now') =
                Found(Val(items[loc[p].k].Object.kind,
                          WrapTo(items[loc[p].k].Object.kind, Sum(p))))]_vars

\* the scenario of the test: Increment by 2 of the int 1 has returned and
\* the table holds the int 3
C7_Witness ==
  \E p \in Procs :
    /\ pc[p] = "done" /\ loc[p].op = "Increment" /\ loc[p].err = ""
    /\ loc[p].n = 2
    /\ loc[p].item.Object = Val("int", 1)
    /\ loc[p].k \in DOMAIN items
    /\ items[loc[p].k].Object = Val("int", 3)

----------------------------------------------------------------------------
(* C8 *)

\* this step is the type switch of one of the operations ops on a payload of
\* one of the kinds
SwitchStep(p, ops, kinds) ==
  /\ pc[p] = "Arith_switch" /\ pc'[p] # "Arith_switch"
  /\ loc[p].op \in ops
  /\ loc[p].k \in DOMAIN items
  /\ items[loc[p].k].Object.kind \in kinds

\* IncrementFloat and DecrementFloat on a live entry holding an integer fail
\* with WrongType and leave the table unchanged
C8_FloatOnInteger ==
  \A p \in Procs :
    SwitchStep(p, {"IncrementFloat", "DecrementFloat"}, IntKinds) =>
      /\ pc'[p] = "done"
      /\ loc'[p].err = "WrongType"
      /\ items' = items

----------------------------------------------------------------------------
(* C9 *)

ArithOps == {"Increment", "Decrement", "IncrementFloat", "DecrementFloat"}

\* C9: Increment, Decrement, IncrementFloat and DecrementFloat on a key with
\* no entry, or with an expired entry still in the table, return NotFound
\* and leave the table unchanged.
C9_ArithNotFound ==
  [][\A p \in Procs, op \in ArithOps :
       (Calls(p, op) /\ ~Live(items, loc'[p].k, now)) =>
         /\ pc'[p] = "done"
         /\ loc'[p].err = "NotFound"
         /\ items' = items]_vars

\* a DecrementFloat has returned NotFound for an expired entry, which is
\* still in the table
C9_Witness ==
  \E p \in Procs :
    /\ pc[p] = "done" /\ loc[p].op = "DecrementFloat" /\ loc[p].err = "NotFound"
    /\ loc[p].k \in DOMAIN items
    /\ ~Live(items, loc[p].k, now)

----------------------------------------------------------------------------
(* C10 *)

\* every caller has completed an Increment of key k with no error, none has
\* returned to its caller yet, and these are all the Increments there were
AllIncremented(k) ==
  /\ arith = Cardinality(Procs)
  /\ \A p \in Procs :
       pc[p] = "done" /\ loc[p].op = "Increment" /\ loc[p].k = k /\ loc[p].err = ""

RECURSIVE SumOfDeltas(_)
SumOfDeltas(P) ==
  IF P = {} THEN 0
  ELSE LET p == CHOOSE q \in P : TRUE IN loc[p].n + SumOfDeltas(P \ {p})

\* C10: when the callers increment one live integer key concurrently, with
\* no other writer of the key, the payload left is the value the first of
\* them found plus the sum of all deltas, and that is what Get returns.
C10_NoLostUpdate ==
  \A k \in Keys :
    AllIncremented(k) =>
      /\ k \in DOMAIN items
      /\ \E p \in Procs :
           /\ items[k].Object =
                Val(loc[p].item.Object.kind, loc[p].item.Object.val + SumOfDeltas(Procs))
           /\ Live(items, k, now) => GetOf(items, k, now) = Found(items[k].Object)

\* two callers have incremented the int 1 by 1 and by 2, and the table holds
\* the int 4
C10_Witness ==
  /\ AllIncremented("a")
  /\ \E p \in Procs, q \in Procs : loc[p].n = 1 /\ loc[q].n = 2
  /\ items["a"].Object = Val("int", 4)

----------------------------------------------------------------------------
(* C11 *)

\* the calls of the callback that caller p's operation has made, as the
\* (key, payload) pairs they were given
CalledPairs(frame) ==
  [i \in 1 .. Len(frame.called) |->
     [key |-> frame.called[i].key, value |-> frame.called[i].value]]

\* C11: Delete(k) leaves k absent from the table, every other key as it
\* was, and returns no error. With a callback registered and an entry for k
\* present, live or expired, Delete invokes the callback exactly once, with
\* k and the removed payload; with no entry for k, or no callback
\* registered, it invokes none.
C11_Delete ==
  [][\A p \in Procs :
       /\ Calls(p, "Delete") =>
            LET k == loc'[p].k
            IN  /\ items' = [j \in (DOMAIN items) \ {k} |-> items[j]]
                /\ loc'[p].err = ""
                /\ loc'[p].called = <<>>
                /\ IF onEvicted # NilCb /\ k \in DOMAIN items
                   THEN pc'[p] = "Delete_onEvicted" /\ loc'[p].v = items[k].Object
                   ELSE pc'[p] = "done"
       /\ (pc[p] = "Delete_onEvicted" /\ pc'[p] # "Delete_onEvicted") =>
            /\ pc'[p] = "done"
            /\ CalledPairs(loc'[p]) = <<[key |-> loc[p].k, value |-> loc[p].v]>>
            /\ loc'[p].err = ""
            /\ items' = items
       /\ (pc[p] = "done" /\ loc[p].op = "Delete" /\ pc'[p] = "done") =>
            loc'[p].called = loc[p].called]_vars

----------------------------------------------------------------------------
(* C12 *)

\* the keys of table m whose expiration is set and earlier than the clock
\* reading t
ExpiredAt(m, t) == {k \in DOMAIN m : m[k].Expiration > 0 /\ m[k].Expiration < t}

\* the (key, payload) pairs of the keys K of table m
PairsOf(m, K) == {[key |-> k, value |-> m[k].Object] : k \in K}

\* C12: one DeleteExpired removes exactly the entries whose expiration is set
\* and earlier than the clock reading it captured at its start, entries
\* written since that reading among the ones it keeps, and invokes the
\* callback once for each entry it removed and for no other; a DeleteExpired
\* that finds nothing expired removes nothing and invokes no callback.
C12_DeleteExpired ==
  [][\A p \in Procs :
       /\ Calls(p, "DeleteExpired") =>
            /\ loc'[p].t = now
            /\ items' = items
            /\ loc'[p].called = <<>>
       /\ (pc[p] = "DeleteExpired_Lock" /\ pc'[p] # "DeleteExpired_Lock") =>
            LET gone == ExpiredAt(items, loc[p].t)
            IN  /\ items' = [j \in (DOMAIN items) \ gone |-> items[j]]
                /\ loc'[p].called = <<>>
                /\ loc'[p].evictedItems =
                     IF onEvicted # NilCb THEN PairsOf(items, gone) ELSE {}
                /\ pc'[p] = IF loc'[p].evictedItems = {} THEN "done"
                            ELSE "DeleteExpired_onEvicted"
       /\ (pc[p] = "DeleteExpired_onEvicted" /\ loc'[p] # loc[p]) =>
            /\ items' = items
            /\ Len(loc'[p].called) = Len(loc[p].called) + 1
            /\ \E v \in loc[p].evictedItems :
                 /\ loc'[p].evictedItems = loc[p].evictedItems \ {v}
                 /\ CalledPairs(loc'[p]) = Append(CalledPairs(loc[p]), v)
            /\ pc'[p] = IF loc'[p].evictedItems = {} THEN "done"
                        ELSE "DeleteExpired_onEvicted"
       /\ (pc[p] = "DeleteExpired_onEvicted" /\ loc'[p] = loc[p]) =>
            pc'[p] = "DeleteExpired_onEvicted"]_vars

----------------------------------------------------------------------------
(* C13 *)

\* the (key, payload) pairs caller p's operation has removed and still has
\* to notify, or has notified
Notified(p) == {CalledPairs(loc[p])[i] : i \in 1 .. Len(loc[p].called)}

Pending(p) ==
  IF pc[p] = "Delete_onEvicted" THEN {[key |-> loc[p].k, value |-> loc[p].v]}
  ELSE IF pc[p] = "DeleteExpired_onEvicted" THEN loc[p].evictedItems
  ELSE {}

\* this step is the removal step of a Delete or of a DeleteExpired by p
Removes(p) ==
  \/ Calls(p, "Delete")
  \/ pc[p] = "DeleteExpired_Lock" /\ pc'[p] # "DeleteExpired_Lock"

\* C13: with a callback registered, each entry that a Delete or a
\* DeleteExpired removes is notified exactly once, however a Delete and a
\* DeleteExpired, or two DeleteExpired, interleave on it: the operation that
\* removes the entry takes it out of the table under the lock and is the only
\* one to collect it (never twice), it collects every entry it removes (never
\* zero times), and it calls the callback once for each pair it collected.
C13_ExactlyOnce ==
  [][\A p \in Procs :
       /\ (Removes(p) /\ onEvicted # NilCb) =>
            /\ Pending(p)' = PairsOf(items, (DOMAIN items) \ (DOMAIN items'))
            /\ \A q \in Procs \ {p} : Pending(q)' = Pending(q)
            /\ loc'[p].called = <<>>
       /\ (~Removes(p) /\ pc'[p] # "idle") =>
            /\ Pending(p)' \subseteq Pending(p)
            /\ Len(loc'[p].called) = Len(loc[p].called) + Cardinality(Pending(p) \ Pending(p)')
            /\ Notified(p)' = Notified(p) \cup (Pending(p) \ Pending(p)')
       /\ (pc[p] # "idle" /\ pc'[p] = "idle") => Pending(p) = {}
       /\ pc'[p] # "panic"]_vars

\* a Delete of key k and a DeleteExpired have overlapped, neither has
\* returned yet: the sweep removed the expired entry of k and has called the
\* callback once for it, the Delete found nothing to remove and made no call
C13_Witness ==
  \E p \in Procs, q \in Procs :
    /\ pc[p] = "done" /\ loc[p].op = "Delete" /\ loc[p].called = <<>>
    /\ pc[q] = "done" /\ loc[q].op = "DeleteExpired"
    /\ CalledPairs(loc[q]) = <<[key |-> loc[p].k, value |-> EvictValue(loc[p].k)]>>
    /\ onEvicted # NilCb

----------------------------------------------------------------------------
(* C14 *)

\* this step is a call of the callback by caller p's operation
CallsBack(p) == Len(loc'[p].called) > Len(loc[p].called)

\* C14: the callback is never invoked while the Delete or DeleteExpired that
\* invokes it holds the table lock: whenever an operation has a callback to
\* call or calls it, it has released the lock, and a DeleteExpired calls its
\* callbacks with the table it left and the pairs it collected under the
\* lock, collecting nothing more once the first call is due.
C14_CallbackUnlocked ==
  [][\A p \in Procs :
       /\ (pc[p] \in {"Delete_onEvicted", "DeleteExpired_onEvicted"} \/ CallsBack(p)) =>
            /\ mu.w # p
            /\ p \notin mu.r
       /\ CallsBack(p) =>
            /\ pc[p] \in {"Delete_onEvicted", "DeleteExpired_onEvicted"}
            /\ items' = items
            /\ mu' = mu
            /\ Pending(p)' = Pending(p) \ {CalledPairs(loc'[p])[Len(loc'[p].called)]}
            /\ CalledPairs(loc'[p])[Len(loc'[p].called)] \in Pending(p)]_vars

\* a DeleteExpired that collected two pairs has called the callback for one
\* of them and has the other still to call
C14_Witness ==
  \E p \in Procs :
    /\ pc[p] = "DeleteExpired_onEvicted"
    /\ Len(loc[p].called) = 1
    /\ Cardinality(loc[p].evictedItems) = 1
    /\ mu = Unlocked

----------------------------------------------------------------------------
(* C15 *)

\* C15: every call of the callback that a Delete or a DeleteExpired makes
\* goes to the callback that was registered when the operation removed its
\* entries under the lock: the calls of one sweep are never split between
\* an old and a new callback, and a Delete never calls a callback registered
\* after it removed the entry.
C15_CapturedCallback ==
  \A p \in Procs :
    \A i \in 1 .. Len(loc[p].called) : loc[p].called[i].f = loc[p].f

----------------------------------------------------------------------------
(* C16 *)

\* C16: the callback is invoked only by a Delete or a DeleteExpired, and only
\* for a (key, payload) pair which that operation took out of the table: the
\* pairs an operation has to notify are entries its removal step removed,
\* and Set, SetDefault, Add, Replace, Get, GetWithExpiration and the
\* Increment and Decrement family return having invoked no callback, also
\* when a Set or an Add overwrites an expired entry that was not swept.
C16_OnlyRemovals ==
  [][\A p \in Procs :
       /\ CallsBack(p) =>
            /\ loc[p].op \in {"Delete", "DeleteExpired"}
            /\ Len(loc'[p].called) = Len(loc[p].called) + 1
            /\ CalledPairs(loc'[p])[Len(loc'[p].called)] \in Pending(p)
       /\ Removes(p) =>
            Pending(p)' \subseteq PairsOf(items, (DOMAIN items) \ (DOMAIN items'))
       /\ ~Removes(p) => Pending(p)' \subseteq Pending(p)
       /\ loc'[p].op \notin {"Delete", "DeleteExpired"} =>
            loc'[p].called = <<>> /\ Pending(p)' = {}]_vars

\* with a callback registered, an Add has found the entry of its key
\* expired and not swept, and is about to overwrite it
C16_Witness ==
  \E p \in Procs :
    /\ pc[p] = "Add_set"
    /\ onEvicted # NilCb
    /\ loc[p].k \in DOMAIN items
    /\ Expired(items[loc[p].k], now)

----------------------------------------------------------------------------
(* C17 *)

\* C17: no interleaving of operations crashes the engine: a Delete or a
\* DeleteExpired never calls an absent (nil) callback, also when OnEvicted
\* removes or replaces the callback between the removal under the lock and
\* the call after the unlock.
C17_NoCrash == \A p \in Procs : pc[p] # "panic"

----------------------------------------------------------------------------
(* C18 *)

\* the operation whose step this is, if it is a step of caller p
StepOf(p) == IF pc[p] = "idle" THEN loc'[p].op ELSE loc[p].op

\* this step is the write to the table of a Set, or of an Add or a Replace
\* that passed its lookup, for key k
WritesKey(p, k) ==
  /\ \/ Steps(p, "Set_Lock", "done")
     \/ Steps(p, "Add_set", "done")
     \/ Steps(p, "Replace_set", "done")
  /\ loc[p].k = k

\* C18: the expiration stored for a key changes, and an entry for the key
\* appears, only in the write of a Set or of a successful Add or Replace to
\* that key; an entry disappears only in a Delete or a DeleteExpired. Get,
\* GetWithExpiration, OnEvicted, a failed Add or Replace and the four
\* arithmetic operations leave every expiration unchanged: a successful one
\* changes the payload of its own key and nothing else, and Get and
\* GetWithExpiration leave the whole table unchanged.
C18_ExpirationFrame ==
  [][/\ \A k \in Keys :
          /\ (k \in DOMAIN items' /\
              (k \notin DOMAIN items \/ items'[k].Expiration # items[k].Expiration)) =>
               \E p \in Procs : WritesKey(p, k)
          /\ (k \in DOMAIN items /\ k \notin DOMAIN items') =>
               \E p \in Procs : Removes(p)
     /\ \A p \in Procs :
          /\ (pc'[p] # pc[p] /\
              StepOf(p) \in {"Get", "GetWithExpiration", "OnEvicted"}) => items' = items
          /\ (pc'[p] # pc[p] /\ StepOf(p) \in {"Add", "Replace"} /\ loc'[p].err # "") =>
               items' = items
          /\ (pc'[p] # pc[p] /\ StepOf(p) \in ArithOps) =>
               /\ DOMAIN items' = DOMAIN items
               /\ \A k \in DOMAIN items :
                    /\ items'[k].Expiration = items[k].Expiration
                    /\ items'[k].Object # items[k].Object =>
                         k = loc[p].k /\ loc'[p].err = ""]_vars

\* an Increment has changed the payload of an entry that expires, and left
\* its expiration as it was, with an entry of the other key in the table
C18_Witness ==
  \E p \in Procs :
    /\ pc[p] = "done" /\ loc[p].op = "Increment" /\ loc[p].err = ""
    /\ loc[p].k \in DOMAIN items
    /\ items[loc[p].k].Object # loc[p].item.Object
    /\ items[loc[p].k].Expiration = loc[p].item.Expiration
    /\ loc[p].item.Expiration > 0
    /\ DOMAIN items = Keys

----------------------------------------------------------------------------
(* C19 *)

\* what the lookup of the arithmetic operations (lines 307-311) finds for
\* key k in table m at the clock reading t
ArithLookup(m, k, t) ==
  IF k \notin DOMAIN m \/ Expired(m[k], t)
  THEN [found |-> FALSE, item |-> Item(NilVal, 0)]
  ELSE [found |-> TRUE, item |-> m[k]]

\* C19: with no callback registered, the run in which DeleteExpired is
\* called at arbitrary points and the run of the same calls and clock
\* advances in which it never is cannot be told apart: at every clock
\* reading every lookup gives the same in the table and in the twin table,
\* that of Get, of GetWithExpiration, of Add and Replace and of the
\* arithmetic operations, and an arithmetic operation between its lookup and
\* its write holds the entry the twin table holds; so every value and every
\* error returned is the same in both runs.
C19_LazyEager ==
  /\ \A k \in Keys :
       /\ GetOf(lazy, k, now) = GetOf(items, k, now)
       /\ GetWithExpirationOf(lazy, k, now) = GetWithExpirationOf(items, k, now)
       /\ get(lazy, k, now) = get(items, k, now)
       /\ ArithLookup(lazy, k, now) = ArithLookup(items, k, now)
  /\ \A p \in Procs :
       pc[p] = "Arith_switch" =>
         /\ loc[p].k \in DOMAIN lazy
         /\ lazy[loc[p].k] = loc[p].item
         /\ loc[p].k \in DOMAIN items
         /\ ArithWrite(lazy, loc[p])[loc[p].k] = ArithWrite(items, loc[p])[loc[p].k]

\* a sweep has removed an expired entry that the twin table still holds,
\* and a Get of its key has returned not-found
C19_Witness ==
  \E p \in Procs :
    /\ pc[p] = "done" /\ loc[p].op = "Get" /\ ~loc[p].ok
    /\ loc[p].k \in DOMAIN lazy
    /\ loc[p].k \notin DOMAIN items

----------------------------------------------------------------------------
(* C20 *)

\* C20: under fair scheduling every operation that was started returns to
\* its caller in the end, whatever path it takes, the error paths and the
\* call of the callback after the unlock among them: no operation is left
\* waiting for the lock or stopped for good.
C20_Returns == \A p \in Procs : (pc[p] # "idle") ~> (pc[p] = "idle")

====
